---- MODULE Spec2Model ----
(***************************************************************************)
(* A model of the WhatsAppWidget React component (src/unnamed/part_000).   *)
(*                                                                         *)
(* Strings are sequences of UTF-16 code units (integers), as JavaScript    *)
(* strings are.  Time is in milliseconds.  One action models one event     *)
(* handler together with the re-render, commit and effects it causes.      *)
(***************************************************************************)
EXTENDS Integers, Sequences, FiniteSets, TLC

\* ------------------------------------------------------------------ bounds
MaxLen   == 1      \* longest composer text built from Alphabet
MaxOpens == 2      \* closed-to-open transitions in one behaviour
MaxSends == 2      \* window.open calls in one behaviour
MaxTicks == 6      \* clock steps in one behaviour

\* --------------------------------------------------------- program constants
FocusDelayMs   == 300   \* setTimeout(..., 300)
ExitDurationMs == 200   \* exit: transition: { duration: 0.2 }
Quantum        == ExitDurationMs \div 2   \* clock step: divides both delays

Undefined == <<-1>>          \* the JavaScript value undefined (a missing prop);
                             \* no string, as code units are never negative
None      == "none"          \* no error
NoUrl     == <<>>            \* window.open has not been called
\* no timer callback has run
NoCallback == [id |-> -1, focused |-> FALSE, gap |-> 0, stale |-> FALSE,
               afterUnmount |-> FALSE]

\* ------------------------------------------------------------ string literals
WaMe      == <<104,116,116,112,115,58,47,47,119,97,46,109,101,47>>  \* "https://wa.me/"
TextKey   == <<63,116,101,120,116,61>>                              \* "?text="
UndefinedStr == <<117,110,100,101,102,105,110,101,100>>             \* "undefined"
Phone     == <<49,53,53,53,49,50,51,52,53,54,55>>                   \* "15551234567"
HiThere   == <<72,105,32,116,104,101,114,101,33>>                   \* "Hi there!"
Acme      == <<65,99,109,101>>                                      \* "Acme"
Logo      == <<108,46,112,110,103>>                                 \* "l.png"

\* code units the composer texts are built from:
\* e-acute (233) and a high surrogate (55357), which alone is ill-formed
Alphabet == {233, 55357}

RECURSIVE SeqsUpTo(_)
SeqsUpTo(n) ==
  IF n = 0 THEN {<<>>}
  ELSE LET shorter == SeqsUpTo(n - 1)
       IN shorter \cup {Append(s, c) : s \in shorter, c \in Alphabet}

\* what the user may type: every text over Alphabet, "Hi there!", " \n" and
\* U+1F600 (a surrogate pair)
Texts == SeqsUpTo(MaxLen) \cup {HiThere, <<32, 10>>, <<55357, 56832>>}
\* the texts typed where the timing is explored
ShortTexts == {<<>>, <<33>>}

\* --------------------------------------------------------- encodeURIComponent
IsAlpha(c) == (c >= 65 /\ c <= 90) \/ (c >= 97 /\ c <= 122)
IsDigit(c) == c >= 48 /\ c <= 57
UriMark == {45, 95, 46, 33, 126, 42, 39, 40, 41}    \* - _ . ! ~ * ' ( )
\* a variant that keeps only the unreserved characters of RFC 3986 (- _ . ~)
IsUnreservedRfc3986(c) == IsAlpha(c) \/ IsDigit(c) \/ c \in {45, 95, 46, 126}
\* uriUnreserved of encodeURIComponent: alphanumerics and - _ . ! ~ * ' ( )
IsUnreserved(c) == IsAlpha(c) \/ IsDigit(c) \/ c \in UriMark

IsHighSurrogate(c) == c >= 55296 /\ c <= 56319
IsLowSurrogate(c)  == c >= 56320 /\ c <= 57343

HexDigit(n) == IF n < 10 THEN 48 + n ELSE 55 + n      \* "0".."9", "A".."F"
PercentByte(b) == <<37, HexDigit(b \div 16), HexDigit(b % 16)>>   \* "%XX"

Utf8(cp) ==
  IF cp < 128 THEN <<cp>>
  ELSE IF cp < 2048 THEN <<192 + (cp \div 64), 128 + (cp % 64)>>
  ELSE IF cp < 65536 THEN
    <<224 + (cp \div 4096), 128 + ((cp \div 64) % 64), 128 + (cp % 64)>>
  ELSE
    <<240 + (cp \div 262144), 128 + ((cp \div 4096) % 64),
      128 + ((cp \div 64) % 64), 128 + (cp % 64)>>

RECURSIVE PercentAll(_)
PercentAll(bytes) ==
  IF bytes = <<>> THEN <<>>
  ELSE PercentByte(Head(bytes)) \o PercentAll(Tail(bytes))

\* the escape of one code unit that is not unreserved
EscapeUnit(c) == PercentAll(Utf8(c))

\* Encode (ECMAScript 19.2.6.5) with the unreserved set of encodeURIComponent.
\* The result is [ok |-> TRUE, val |-> string] or, on a lone surrogate,
\* [ok |-> FALSE, val |-> <<>>] (a URIError is thrown).
RECURSIVE Encode(_, _)
Encode(s, k) ==
  IF k > Len(s) THEN [ok |-> TRUE, val |-> <<>>]
  ELSE
    LET c == s[k] IN
    IF IsUnreserved(c) THEN
      LET r == Encode(s, k + 1)
      IN [ok |-> r.ok, val |-> IF r.ok THEN <<c>> \o r.val ELSE <<>>]
    ELSE IF IsLowSurrogate(c) THEN [ok |-> FALSE, val |-> <<>>]
    ELSE IF IsHighSurrogate(c) THEN
      IF k + 1 > Len(s) \/ ~IsLowSurrogate(s[k + 1])
      THEN [ok |-> FALSE, val |-> <<>>]
      ELSE
        LET cp == 65536 + (c - 55296) * 1024 + (s[k + 1] - 56320)
            r  == Encode(s, k + 2)
        IN [ok |-> r.ok,
            val |-> IF r.ok THEN PercentAll(Utf8(cp)) \o r.val ELSE <<>>]
    ELSE
      LET r == Encode(s, k + 1)
      IN [ok |-> r.ok, val |-> IF r.ok THEN EscapeUnit(c) \o r.val ELSE <<>>]

EncodeURIComponent(s) == Encode(s, 1)

\* `${phoneNumber}` in a template literal: undefined prints as "undefined"
TemplateString(v) == IF v = Undefined THEN UndefinedStr ELSE v

\* `https://wa.me/${phoneNumber}?text=${encodedMessage}`
DeepLink(phone, encoded) == WaMe \o TemplateString(phone) \o TextKey \o encoded

\* ---------------------------------------------------------------- state
VARIABLES
  props,         \* the props the host passed: phoneNumber, defaultMessage,
                 \* businessName, businessLogo, initiallyOpen
  isOpen,        \* useState(initiallyOpen)
  message,       \* useState(defaultMessage)
  mounted,       \* useState(false)
  phase,         \* "created", "committed" (first commit done, mount effects
                 \* pending), "live", "unmounted", "crashed" (a render threw)
  rendered,      \* what the last committed render returned
  panelDom,      \* the panel's elements: "absent", "present", or "exiting"
                 \* (kept by AnimatePresence while the exit animation plays)
  panelMessage,  \* the message the panel's elements were rendered with
  exitDue,       \* when the exit animation ends (0 when none is playing)
  focusDeps,     \* dependency array of the focus effect at the last commit
  timers,        \* pending setTimeout callbacks: [id, due]
  now,           \* the clock
  opened,        \* URL of the last window.open call, or NoUrl
  navCount,      \* number of window.open calls
  thrown,        \* error raised by the last operation, or None
  \* history, for stating the properties
  opens,         \* number of closed-to-open transitions so far
  lastOpenAt,    \* instant of the most recent closed-to-open transition
  staleIds,      \* pending timers whose open was followed by a close
  lastCallback,  \* the last timer callback that ran, or NoCallback
  lastOp,        \* the last operation
  streak,        \* consecutive clicks on the floating button: 0 none,
                 \* 1 an odd number, 2 an even number
  streakStart    \* isOpen before the first click of the streak

vars == <<props, isOpen, message, mounted, phase, rendered, panelDom,
          panelMessage, exitDue, focusDeps, timers, now, opened, navCount,
          thrown, opens, lastOpenAt, staleIds, lastCallback, lastOp, streak,
          streakStart>>

navVars  == <<opened, navCount>>

Alive == phase \in {"committed", "live"}

\* ------------------------------------------------------------- rendering
\* `if (!mounted) return null`
RenderContainer(m) == m

\* a variant without the mounted gate
RenderPanelUngated(m, o) == o
\* `if (!mounted) return null` and `{isOpen && (<motion.div ...`
RenderPanel(m, o) == m /\ o

\* businessLogo ? <img/> : <div>{businessName.charAt(0)}</div>
\* charAt on undefined raises a TypeError while the panel is rendered
RenderThrows(m, o) ==
  /\ RenderPanel(m, o)
  /\ props.businessLogo = Undefined
  /\ props.businessName = Undefined

\* inputRef.current: the textarea, attached as long as its element exists
InputRefCurrent(dom) == dom # "absent"

\* AnimatePresence: a child that leaves the render output stays until its
\* exit animation has played
NextPanelDom(dom, panel) ==
  IF panel THEN "present"
  ELSE IF dom = "present" THEN "exiting"
  ELSE dom

\* ---------------------------------------------------------- focus effect
\* a variant whose effect also depends on mounted
FocusEffectDepsWithMounted(o, m) == <<o, m>>
\* useEffect(..., [isOpen])
FocusEffectDeps(o, m) == <<o>>

\* if (isOpen && inputRef.current) setTimeout(..., 300)
ShouldScheduleFocus(o, ref) == o /\ ref

\* the effect body, run at instant `now` for the open transition `id`
FocusEffect(o, ref, id, pending) ==
  IF ShouldScheduleFocus(o, ref)
  THEN pending \cup {[id |-> id, due |-> now + FocusDelayMs]}
  ELSE pending

\* a variant that always opens
ToggleAlwaysOpens(o) == TRUE
\* setIsOpen(!isOpen)
ToggleValue(o) == ~o

\* setIsOpen(false)
CloseValue(o) == FALSE

\* a variant that clears the composer
MessageClearedAfterSend(m) == <<>>
\* the composer text a send leaves behind: handleWhatsAppClick sets no state
MessageAfterSend(m) == m

\* A render with state (o, m, msg), its commit and the effects whose
\* dependencies changed.  `pending` are the timers before the commit.
Commit(o, m, msg, pending) ==
  /\ isOpen' = o
  /\ mounted' = m
  /\ message' = msg
  /\ IF RenderThrows(m, o)
     THEN \* no error boundary: React unmounts the whole tree
          /\ phase' = "crashed"
          /\ rendered' = [container |-> FALSE, panel |-> FALSE]
          /\ panelDom' = "absent"
          /\ panelMessage' = <<>>
          /\ exitDue' = 0
          /\ timers' = pending
          /\ thrown' = "TypeError"
          /\ UNCHANGED <<focusDeps, opens, lastOpenAt, staleIds>>
     ELSE LET dom      == NextPanelDom(panelDom, RenderPanel(m, o))
              opening  == o /\ ~isOpen
              closing  == isOpen /\ ~o
              id       == IF opening THEN opens + 1 ELSE opens
              rerun    == FocusEffectDeps(o, m) # focusDeps
          IN /\ phase' = "live"
             /\ rendered' = [container |-> RenderContainer(m),
                             panel |-> RenderPanel(m, o)]
             /\ panelDom' = dom
             /\ panelMessage' = IF dom = "present" THEN msg
                                ELSE IF dom = "exiting" THEN panelMessage
                                ELSE <<>>
             /\ exitDue' = IF dom = "exiting"
                           THEN (IF panelDom = "exiting" THEN exitDue
                                 ELSE now + ExitDurationMs)
                           ELSE 0
             /\ focusDeps' = FocusEffectDeps(o, m)
             /\ timers' = IF rerun
                          THEN FocusEffect(o, InputRefCurrent(dom), id, pending)
                          ELSE pending
             /\ opens' = id
             /\ lastOpenAt' = IF opening THEN now ELSE lastOpenAt
             /\ staleIds' = IF closing
                            THEN staleIds \cup {t.id : t \in pending}
                            ELSE staleIds
             /\ thrown' = None

\* ------------------------------------------------------------------ Init
PropsSet ==
  [phoneNumber : {Undefined, Phone},
   defaultMessage : {<<>>, HiThere},
   businessName : {Undefined, Acme},
   businessLogo : {Undefined, Logo},
   initiallyOpen : BOOLEAN]

\* the configurations where the timing is explored
UIProps ==
  [phoneNumber : {Phone},
   defaultMessage : {<<>>},
   businessName : {Undefined, Acme},
   businessLogo : {Undefined},
   initiallyOpen : BOOLEAN]

InitWith(P) ==
  /\ props \in P
  /\ isOpen = props.initiallyOpen
  /\ message = props.defaultMessage
  /\ mounted = FALSE
  /\ phase = "created"
  /\ rendered = [container |-> FALSE, panel |-> FALSE]
  /\ panelDom = "absent"
  /\ panelMessage = <<>>
  /\ exitDue = 0
  /\ focusDeps = <<>>
  /\ timers = {}
  /\ now = 0
  /\ opened = NoUrl
  /\ navCount = 0
  /\ thrown = None
  /\ opens = 0
  /\ lastOpenAt = 0
  /\ staleIds = {}
  /\ lastCallback = NoCallback
  /\ lastOp = "init"
  /\ streak = 0
  /\ streakStart = props.initiallyOpen

\* --------------------------------------------------------------- actions
\* The host mounts the component: first render and commit.
Attach ==
  /\ phase = "created"
  /\ phase' = "committed"
  /\ rendered' = [container |-> RenderContainer(mounted),
                  panel |-> RenderPanel(mounted, isOpen)]
  /\ panelDom' = NextPanelDom(panelDom, RenderPanel(mounted, isOpen))
  /\ panelMessage' = IF RenderPanel(mounted, isOpen) THEN message ELSE <<>>
  /\ focusDeps' = FocusEffectDeps(isOpen, mounted)
  /\ lastOp' = "attach"
  /\ streak' = 0
  /\ streakStart' = isOpen
  /\ thrown' = None
  /\ UNCHANGED <<props, isOpen, message, mounted, exitDue, timers, now,
                 opened, navCount, opens, lastOpenAt, staleIds, lastCallback>>

\* The mount effects run (setMounted(true) and the focus effect, which sees
\* the refs of the first commit), then the re-render setMounted causes.
RunEffects ==
  /\ phase = "committed"
  /\ Commit(isOpen, TRUE, message,
            FocusEffect(isOpen, InputRefCurrent(panelDom), opens, timers))
  /\ lastOp' = "effects"
  /\ streak' = 0
  /\ streakStart' = isOpen'
  /\ UNCHANGED <<props, now, opened, navCount, lastCallback>>

\* Click on the floating button.
Toggle ==
  /\ phase = "live"
  /\ rendered.container
  /\ isOpen \/ opens < MaxOpens
  /\ Commit(ToggleValue(isOpen), mounted, message, timers)
  /\ lastOp' = "toggle"
  /\ streak' = IF streak = 1 THEN 2 ELSE 1
  /\ streakStart' = IF streak = 0 THEN isOpen ELSE streakStart
  /\ UNCHANGED <<props, now, opened, navCount, lastCallback>>

\* Click on the close button of the panel's header.
Close ==
  /\ phase = "live"
  /\ panelDom # "absent"
  /\ Commit(CloseValue(isOpen), mounted, message, timers)
  /\ lastOp' = "close"
  /\ streak' = 0
  /\ streakStart' = isOpen'
  /\ UNCHANGED <<props, now, opened, navCount, lastCallback>>

\* A change event of the textarea: setMessage(e.target.value).
SetTextFrom(T) ==
  /\ phase = "live"
  /\ panelDom # "absent"
  /\ \E t \in T : Commit(isOpen, mounted, t, timers)
  /\ lastOp' = "setText"
  /\ streak' = 0
  /\ streakStart' = isOpen'
  /\ UNCHANGED <<props, now, opened, navCount, lastCallback>>

SetText == SetTextFrom(Texts)
TypeShort == SetTextFrom(ShortTexts)

\* Click on the send button: handleWhatsAppClick of the render that
\* produced the panel's elements.
Send ==
  /\ phase = "live"
  /\ panelDom # "absent"
  /\ navCount < MaxSends
  /\ LET enc == EncodeURIComponent(panelMessage)
     IN IF enc.ok
        THEN /\ opened' = DeepLink(props.phoneNumber, enc.val)
             /\ navCount' = navCount + 1
             /\ thrown' = None
        ELSE /\ UNCHANGED navVars
             /\ thrown' = "URIError"
  /\ message' = MessageAfterSend(message)
  /\ lastOp' = "send"
  /\ streak' = 0
  /\ streakStart' = isOpen
  /\ UNCHANGED <<props, isOpen, mounted, phase, rendered, panelDom,
                 panelMessage, exitDue, focusDeps, timers, now, opens,
                 lastOpenAt, staleIds, lastCallback>>

\* A setTimeout callback runs: inputRef.current?.focus().
\* Nothing clears the timer, so it runs in every phase.
TimerFire ==
  /\ \E t \in timers :
       /\ now >= t.due
       /\ timers' = timers \ {t}
       /\ lastCallback' = [id |-> t.id,
                           focused |-> InputRefCurrent(panelDom),
                           gap |-> now - lastOpenAt,
                           stale |-> t.id \in staleIds,
                           afterUnmount |-> phase = "unmounted"]
       /\ staleIds' = staleIds \ {t.id}
  /\ lastOp' = "timer"
  /\ UNCHANGED <<props, isOpen, message, mounted, phase, rendered, panelDom,
                 panelMessage, exitDue, focusDeps, now, opened, navCount,
                 thrown, opens, lastOpenAt, streak, streakStart>>

\* The exit animation has played: AnimatePresence removes the panel.
ExitComplete ==
  /\ panelDom = "exiting"
  /\ now >= exitDue
  /\ panelDom' = "absent"
  /\ panelMessage' = <<>>
  /\ exitDue' = 0
  /\ lastOp' = "exitComplete"
  /\ UNCHANGED <<props, isOpen, message, mounted, phase, rendered, focusDeps,
                 timers, now, opened, navCount, thrown, opens, lastOpenAt,
                 staleIds, lastCallback, streak, streakStart>>

\* The host unmounts the component.  The effects return no cleanup.
Unmount ==
  /\ Alive
  /\ phase' = "unmounted"
  /\ rendered' = [container |-> FALSE, panel |-> FALSE]
  /\ panelDom' = "absent"
  /\ panelMessage' = <<>>
  /\ exitDue' = 0
  /\ lastOp' = "unmount"
  /\ streak' = 0
  /\ streakStart' = isOpen
  /\ thrown' = None
  /\ UNCHANGED <<props, isOpen, message, mounted, focusDeps, timers, now,
                 opened, navCount, opens, lastOpenAt, staleIds, lastCallback>>

\* Time passes, unless a callback or the end of the exit animation is due.
Tick ==
  /\ now + Quantum <= MaxTicks * Quantum
  /\ \A t \in timers : t.due > now
  /\ panelDom = "exiting" => exitDue > now
  /\ now' = now + Quantum
  /\ lastOp' = "tick"
  /\ UNCHANGED <<props, isOpen, message, mounted, phase, rendered, panelDom,
                 panelMessage, exitDue, focusDeps, timers, opened, navCount,
                 thrown, opens, lastOpenAt, staleIds, lastCallback, streak,
                 streakStart>>

\* The widget in time: opening, closing, the focus timer, the exit animation.
Init == InitWith(UIProps)

Next ==
  \/ Attach
  \/ RunEffects
  \/ Toggle
  \/ Close
  \/ TypeShort
  \/ Send
  \/ TimerFire
  \/ ExitComplete
  \/ Unmount
  \/ Tick

Spec == Init /\ [][Next]_vars

\* The composer and the send action over every configuration and text, at
\* one instant.
InitSend == InitWith(PropsSet)

NextSend ==
  \/ Attach
  \/ RunEffects
  \/ Toggle
  \/ Close
  \/ SetText
  \/ Send
  \/ Unmount

SpecSend == InitSend /\ [][NextSend]_vars

\* ================================================================ claims

\* C1: if the widget unmounts less than 300ms after a closed-to-open
\* transition, the focus callback that transition scheduled does not
\* execute: no timer callback runs after the unmount.
C1_NoCallbackAfterUnmount == ~lastCallback.afterUnmount

\* C2: an open transition that was followed by a close before its 300ms
\* timer expired never leads to a focus call on the composer input (also
\* when the widget was reopened before the old deadline).
C2_NoFocusAfterClose == lastCallback.focused => ~lastCallback.stale

\* every closed-to-open transition of a mounted widget schedules a callback
\* due FocusDelayMs later (the half of C9 the code keeps)
OpenSchedulesFocus ==
  [][(~isOpen /\ isOpen' /\ mounted /\ phase' = "live")
        => \E t \in timers' \ timers : t.due = now + FocusDelayMs]_vars

\* after an unmount no callback calls focus(): inputRef.current is null
NoFocusAfterUnmount == lastCallback.afterUnmount => ~lastCallback.focused

\* C9: every closed-to-open transition of a mounted widget schedules a focus
\* transfer, and no focus transfer to the composer input occurs less than
\* 300ms after the most recent closed-to-open transition.
C9_FocusFollowsAnimation ==
  /\ [][(~isOpen /\ isOpen' /\ mounted /\ phase' = "live")
        => \E t \in timers' \ timers : t.due = now + FocusDelayMs]_vars
  /\ [](lastCallback.focused => lastCallback.gap >= FocusDelayMs)

\* C10: with initiallyOpen, no focus transfer is scheduled for the initial
\* open state: until a later closed-to-open transition there is no pending
\* timer and no callback has run.
C10_NoFocusForInitialOpen ==
  (props.initiallyOpen /\ opens = 0) =>
    (timers = {} /\ lastCallback = NoCallback)

\* the initially open panel is on screen, 300ms have passed, nothing focused
C10_Witness ==
  /\ props.initiallyOpen
  /\ opens = 0
  /\ phase = "live"
  /\ rendered.panel
  /\ now >= FocusDelayMs

\* C6: a click on the floating button negates isOpen, and two consecutive
\* clicks return isOpen to its value before the first.
C6_ToggleInvolution ==
  /\ streak = 1 => isOpen = ~streakStart
  /\ streak = 2 => isOpen = streakStart

\* two consecutive clicks, started from the initially open state
C6_Witness ==
  /\ streak = 2
  /\ lastOp = "toggle"
  /\ props.initiallyOpen
  /\ isOpen

UrlWithBangEscaped ==
  WaMe \o Phone \o TextKey \o <<72,105,37,50,48,116,104,101,114,101,37,50,49>>
\* "https://wa.me/15551234567?text=Hi%20there!"
UrlWithBangLiteral ==
  WaMe \o Phone \o TextKey \o <<72,105,37,50,48,116,104,101,114,101,33>>

SentHiThere ==
  /\ lastOp = "send"
  /\ isOpen
  /\ props.phoneNumber = Phone
  /\ message = HiThere

\* C3 (as stated): the send action with destination "15551234567" and
\* composer text "Hi there!" opens https://wa.me/15551234567?text=Hi%20there%21
C3_BangEscaped == SentHiThere => opened = UrlWithBangEscaped

\* C3 (amended): that send opens https://wa.me/15551234567?text=Hi%20there!
\* - the space is escaped as %20, the '!' is left as it is.
C3_BangLiteral == SentHiThere => opened = UrlWithBangLiteral

C3_Witness == SentHiThere /\ navCount = 1 /\ opened = UrlWithBangLiteral

\* C4: every send requests exactly one navigation, to
\* "https://wa.me/" + destinationId + "?text=" + encode(composer text at the
\* moment of the send).
C4_SendUsesCurrentText ==
  [][lastOp' = "send" =>
       /\ navCount' = navCount + 1
       /\ opened' = DeepLink(props.phoneNumber,
                             EncodeURIComponent(message).val)]_vars

\* C5: a send leaves message, isOpen and mounted as they were, so a second
\* send without edits opens the same URL.
C5_SendLeavesState ==
  [][lastOp' = "send" =>
       /\ message' = message
       /\ isOpen' = isOpen
       /\ mounted' = mounted
       /\ (lastOp = "send" /\ navCount > 0 /\ navCount' > navCount)
            => opened' = opened]_vars

\* an edited text was sent twice and is still in the composer
C5_Witness ==
  /\ lastOp = "send"
  /\ navCount = 2
  /\ message = HiThere
  /\ props.defaultMessage = <<>>

\* C8: no operation throws when destinationId or displayName is missing.
C8_NoOperationThrows ==
  (props.phoneNumber = Undefined \/ props.businessName = Undefined)
    => thrown = None

====
